---- MODULE Spec2Model ----
(***************************************************************************)
(* Model of src/dashboard.py: a Streamlit script that is re-run from top   *)
(* to bottom on every user interaction.  One run = load_data (cached),     *)
(* country restriction, per-category aggregation, threshold filter, sort,  *)
(* category buttons, detail selection.                                     *)
(*                                                                         *)
(* Column names of the dataset are written in ASCII:                       *)
(*   "cat"     = 类目            "cat_alt" = 所属类目                      *)
(*   "country" = 国家            "name"    = 产品名                        *)
(*   "sales"   = 销量数字        "reviews" = 评论数                        *)
(*   "price"   = 价格            "rating"  = 评分      "rank" = 排名       *)
(* and the two countries the script names: "UAE" = 阿联酋, "KSA" = 沙特.   *)
(***************************************************************************)
EXTENDS Integers, Sequences, FiniteSets, Bags, TLC

VARIABLES
    file,                       \* the dataset stored at DATA_FILE (input)
    pc,                         \* "start" | "loaded" | "rendered" | "stopped"
    scroll_trigger_id,          \* st.session_state.scroll_trigger_id (0, or 1
                                \* for the time of the last pick)
    df_raw,                     \* load_data()'s (cached) result
    selected_category_state,    \* st.session_state.selected_category_state
    selected_country,           \* sidebar radio
    sort_mode,                  \* sidebar radio
    min_products,               \* sidebar slider
    min_sales,                  \* sidebar slider
    category_stats,             \* per-category summaries of the last pass
    valid_categories,           \* ordered list of the last pass
    current_cat,                \* category whose detail the last pass showed
    fell_back                   \* history: a pass since the last pick replaced
                                \* the stored category by the fallback

vars == << file, pc, scroll_trigger_id, df_raw, selected_category_state, selected_country,
           sort_mode, min_products, min_sales, category_stats,
           valid_categories, current_cat, fell_back >>

(***************************************************************************)
(* Values.                                                                 *)
(***************************************************************************)
\* Python's None / a null cell of a text column.
None == "<None>"

\* A float: m / 10^e, or NaN.
Num(m, e) == [nan |-> FALSE, m |-> m, e |-> e]
NaN == [nan |-> TRUE, m |-> 0, e |-> 0]
Zero == Num(0, 0)

RECURSIVE Pow10(_)
Pow10(k) == IF k = 0 THEN 1 ELSE 10 * Pow10(k - 1)

Max2(a, b) == IF a >= b THEN a ELSE b

\* a and b brought to the same power of ten.
Scaled(a, e) == a.m * Pow10(e - a.e)
Add(a, b) == LET e == Max2(a.e, b.e) IN Num(Scaled(a, e) + Scaled(b, e), e)
Leq(a, b) == LET e == Max2(a.e, b.e) IN Scaled(a, e) <= Scaled(b, e)
Eq(a, b) == Leq(a, b) /\ Leq(b, a)
Lt(a, b) == ~Leq(b, a)

\* Python's int(x): truncation toward zero.
IntOf(a) == IF a.m >= 0 THEN a.m \div Pow10(a.e) ELSE -((-a.m) \div Pow10(a.e))

(***************************************************************************)
(* Text: a string is a sequence of one-character strings.                  *)
(***************************************************************************)
DigitChars == <<"0", "1", "2", "3", "4", "5", "6", "7", "8", "9">>
IsDigit(c) == \E i \in 1..10 : DigitChars[i] = c
DigitVal(c) == (CHOOSE i \in 1..10 : DigitChars[i] = c) - 1

\* str.replace(',', '')
RemoveCommas(s) == SelectSeq(s, LAMBDA c : c # ",")

\* str.strip()
RECURSIVE LStrip(_)
LStrip(s) == IF s # <<>> /\ Head(s) = " " THEN LStrip(Tail(s)) ELSE s
RECURSIVE RStrip(_)
RStrip(s) == IF s # <<>> /\ s[Len(s)] = " " THEN RStrip(SubSeq(s, 1, Len(s) - 1)) ELSE s
Strip(s) == RStrip(LStrip(s))

\* Value of a digit string read as a decimal integer.
RECURSIVE DigitsVal(_)
DigitsVal(s) == IF s = <<>> THEN 0
                ELSE 10 * DigitsVal(SubSeq(s, 1, Len(s) - 1)) + DigitVal(s[Len(s)])

AllDigits(s) == \A i \in 1..Len(s) : IsDigit(s[i])

\* Python's str(n) for an integer n.
RECURSIVE NatStr(_)
NatStr(n) == IF n < 10 THEN <<DigitChars[n + 1]>>
             ELSE NatStr(n \div 10) \o <<DigitChars[(n % 10) + 1]>>
IntStr(n) == IF n < 0 THEN <<"-">> \o NatStr(-n) ELSE NatStr(n)

\* A raw cell of a numeric column: text, a null, or an integer already.
TextCell(s) == [t |-> "str", s |-> s, n |-> 0]
NullCell == [t |-> "null", s |-> <<>>, n |-> 0]
IntCell(n) == [t |-> "int", s |-> <<>>, n |-> n]

\* Series.astype(str)
AsTypeStr(cell) ==
    CASE cell.t = "str" -> cell.s
      [] cell.t = "null" -> <<"N", "o", "n", "e">>
      [] cell.t = "int" -> IntStr(cell.n)

\* The unsigned decimal literals float() accepts: digits, digits.digits,
\* digits. and .digits
UnsignedNumeric(s) ==
    LET dots == {i \in 1..Len(s) : s[i] = "."} IN
    IF s = <<>> THEN NaN
    ELSE IF dots = {} THEN (IF AllDigits(s) THEN Num(DigitsVal(s), 0) ELSE NaN)
    ELSE IF Cardinality(dots) > 1 THEN NaN
    ELSE LET d == CHOOSE i \in dots : TRUE
             ip == SubSeq(s, 1, d - 1)
             fp == SubSeq(s, d + 1, Len(s))
         IN IF AllDigits(ip) /\ AllDigits(fp) /\ Len(ip) + Len(fp) > 0
            THEN Num(DigitsVal(ip \o fp), Len(fp))
            ELSE NaN

\* pd.to_numeric(text, errors='coerce') on one string: surrounding blanks
\* are ignored, one sign is accepted, anything else gives NaN.
to_numeric(text) ==
    LET s == Strip(text) IN
    IF s = <<>> THEN NaN
    ELSE IF Head(s) = "-"
         THEN LET u == UnsignedNumeric(Tail(s)) IN
              IF u.nan THEN NaN ELSE Num(-u.m, u.e)
    ELSE IF Head(s) = "+" THEN UnsignedNumeric(Tail(s))
    ELSE UnsignedNumeric(s)

\* Series.fillna(0)
fillna0(v) == IF v.nan THEN Zero ELSE v

\* Mutant: the fillna(0) of line 39 is left out.
FixCellNoFill(cell) == to_numeric(Strip(RemoveCommas(AsTypeStr(cell))))

\* Lines 38-39 on one cell.
FixCell(cell) == fillna0(to_numeric(Strip(RemoveCommas(AsTypeStr(cell)))))

cols_to_fix == {"sales", "reviews", "price", "rating", "rank"}

(***************************************************************************)
(* Data frames: a set of column names and a bag of rows, a row being a     *)
(* function from the column names to cells.  Row order is not kept: it     *)
(* only decides ties, which are modelled as choices.                       *)
(***************************************************************************)
DataFrame(columns, rows) == [columns |-> columns, rows |-> rows]
EmptyFrame == DataFrame({}, EmptyBag)

\* DataFrame.empty
IsEmpty(df) == df.columns = {} \/ df.rows = EmptyBag

RECURSIVE SumCounts(_, _)
SumCounts(B, S) == IF S = {} THEN 0
                   ELSE LET x == CHOOSE x \in S : TRUE
                        IN B[x] + SumCounts(B, S \ {x})

\* The bag of F[r] for the rows r of bag B (F a function on the rows).
MapRows(F, B) ==
    [y \in {F[x] : x \in DOMAIN B} |-> SumCounts(B, {x \in DOMAIN B : F[x] = y})]

\* The rows of B that satisfy the boolean function P, with their counts.
FilterRows(P, B) == [x \in {y \in DOMAIN B : P[y]} |-> B[x]]

\* Number of rows of B.
RowCount(B) == SumCounts(B, DOMAIN B)

\* Sum of numeric column col over the rows of B (Series.sum()).
RECURSIVE SumOver(_, _, _)
SumOver(B, S, col) ==
    IF S = {} THEN Zero
    ELSE LET x == CHOOSE x \in S : TRUE
             rest == SumOver(B, S \ {x}, col)
             e == Max2(x[col].e, rest.e)
         IN Num(B[x] * Scaled(x[col], e) + Scaled(rest, e), e)
ColSum(B, col) == SumOver(B, DOMAIN B, col)

\* A row of B whose column col is largest (Series.max() / idxmax).
MaxRow(B, col) == CHOOSE x \in DOMAIN B : \A y \in DOMAIN B : Leq(y[col], x[col])

(***************************************************************************)
(* load_data, lines 24-43.                                                 *)
(***************************************************************************)
DefaultCountry == "UAE"

WithTarget(r, src) == r @@ ("Target_Category" :> r[src])
WithCountry(r) == r @@ ("country" :> DefaultCountry)
FixRowWith(r, cols, Fix(_)) ==
    [c \in DOMAIN r |-> IF c \in cols THEN Fix(r[c]) ELSE r[c]]

\* Lines 35-39: every column of cols_to_fix the frame has is made numeric.
FixColumns(df) ==
    LET cols == cols_to_fix \cap df.columns IN
    DataFrame(df.columns,
              MapRows([r \in DOMAIN df.rows |-> FixRowWith(r, cols, FixCell)], df.rows))

\* Mutant: the second name of the category column is not looked for.
CategorySourceFirstOnly(columns) == IF "cat" \in columns THEN "cat" ELSE None

\* Lines 29-31: the category column, "cat" first; None when neither is there.
CategorySource(columns) ==
    IF "cat" \in columns THEN "cat"
    ELSE IF "cat_alt" \in columns THEN "cat_alt"
    ELSE None

\* Line 29-30
AddTarget(df) ==
    LET src == CategorySource(df.columns) IN
    DataFrame(df.columns \cup {"Target_Category"},
              MapRows([r \in DOMAIN df.rows |-> WithTarget(r, src)], df.rows))

\* Line 33
AddCountry(df) ==
    IF "country" \notin df.columns
    THEN DataFrame(df.columns \cup {"country"},
                   MapRows([r \in DOMAIN df.rows |-> WithCountry(r)], df.rows))
    ELSE df

\* load_data(): [stop |-> st.stop() was called, df |-> the frame returned].
\* An unreadable file raises inside the try and gives the empty frame.
load_data(f) ==
    IF ~f.readable THEN [stop |-> FALSE, df |-> EmptyFrame]
    ELSE IF CategorySource(f.columns) = None THEN [stop |-> TRUE, df |-> EmptyFrame]
    ELSE [stop |-> FALSE,
          df |-> FixColumns(AddCountry(AddTarget(DataFrame(f.columns, f.rows))))]

(***************************************************************************)
(* Country restriction and aggregation, lines 52-84.                       *)
(***************************************************************************)
\* Line 52: the countries of the frame.
available_countries(df) == {r["country"] : r \in DOMAIN df.rows}

\* Lines 53-54, 59: the radio's initial choice is "UAE" when it is listed,
\* otherwise the first country in row order (any listed one here).
default_countries(df) ==
    IF DefaultCountry \in available_countries(df) THEN {DefaultCountry}
    ELSE available_countries(df)

\* Mutant: the restriction to the country is left out.
restrict_nothing(df, country) == df

\* Line 63
restrict_country(df, country) ==
    DataFrame(df.columns,
              FilterRows([r \in DOMAIN df.rows |-> r["country"] = country], df.rows))

\* groupby('Target_Category'): the keys, and the rows of one key.
group_keys(df) == {r["Target_Category"] : r \in DOMAIN df.rows}
group_rows(df, cat) ==
    FilterRows([r \in DOMAIN df.rows |-> r["Target_Category"] = cat], df.rows)

\* The 'count' aggregation: the rows whose cell is not null.
count_non_null(B, col) == SumCounts(B, {x \in DOMAIN B : x[col] # None})

\* Lines 74-78
base_stats(df) ==
    [cat \in group_keys(df) |->
        LET g == group_rows(df, cat) IN
        [count |-> count_non_null(g, "name"),
         total_sales |-> ColSum(g, "sales"),
         total_comments |-> ColSum(g, "reviews")]]

TopN == 10

\* DataFrame.nlargest(n, col): the n rows with the largest col, taken one
\* maximum at a time.
RECURSIVE nlargest(_, _, _)
nlargest(n, B, col) ==
    IF n = 0 \/ DOMAIN B = {} THEN EmptyBag
    ELSE LET x == MaxRow(B, col)
             one == SetToBag({x})
         IN one (+) nlargest(n - 1, B (-) one, col)

\* Mutant: one row short of the ten.
get_top9_sum(group) == ColSum(nlargest(TopN - 1, group, "sales"), "sales")

\* Lines 80-81
get_top10_sum(group) == ColSum(nlargest(TopN, group, "sales"), "sales")

\* Line 83
top10_stats(df) == [cat \in group_keys(df) |-> get_top10_sum(group_rows(df, cat))]

\* Line 84: the merge on Target_Category.
merge_stats(base, top) ==
    [cat \in (DOMAIN base) \cap (DOMAIN top) |->
        [count |-> base[cat].count,
         total_sales |-> base[cat].total_sales,
         total_comments |-> base[cat].total_comments,
         top10 |-> top[cat]]]

aggregate(df) == merge_stats(base_stats(df), top10_stats(df))

(***************************************************************************)
(* Filter and sort, lines 92-116.                                          *)
(***************************************************************************)
BY_SALES == "by_sales"
BY_COMMENTS == "by_comments"
SortModes == {BY_SALES, BY_COMMENTS}

MinProductsDefault == 10
MinSalesDefault == 0

Min2(a, b) == IF a <= b THEN a ELSE b

RECURSIVE MaxInt(_)
MaxInt(S) == LET x == CHOOSE x \in S : TRUE
             IN IF S = {x} THEN x ELSE Max2(x, MaxInt(S \ {x}))

\* st.slider(label, lo, hi, value): the values it can return.  The slider
\* widens its bounds so that lo <= value <= hi.
slider_range(lo, hi, value) ==
    LET lo1 == Min2(lo, hi)
        hi1 == Max2(lo1, hi)
    IN Min2(value, lo1) .. Max2(value, hi1)

\* Line 100
min_products_range(stats) ==
    slider_range(0, MaxInt({stats[c].count : c \in DOMAIN stats}), MinProductsDefault)

\* Line 101
min_sales_range(stats) ==
    slider_range(0, MaxInt({IntOf(stats[c].total_sales) : c \in DOMAIN stats}),
                 MinSalesDefault)

\* Mutant: the product threshold is exclusive.
passes_strictly(summary, minp, mins) ==
    summary.count > minp /\ Leq(Num(mins, 0), summary.total_sales)

\* Lines 104-107
passes(summary, minp, mins) ==
    summary.count >= minp /\ Leq(Num(mins, 0), summary.total_sales)

filtered_cats(stats, minp, mins) ==
    {cat \in DOMAIN stats : passes(stats[cat], minp, mins)}

\* Lines 110-113: the column the list is sorted by.
sort_key(summary, mode) ==
    IF mode = BY_SALES THEN summary.total_sales ELSE summary.total_comments

Range(s) == {s[i] : i \in 1..Len(s)}

Orderings(S) ==
    {s \in [1..Cardinality(S) -> S] : \A i, j \in 1..Cardinality(S) : i # j => s[i] # s[j]}

\* Mutant: ascending=True.
ascending(stats, s, mode) ==
    \A i, j \in 1..Len(s) :
        i < j => Leq(sort_key(stats[s[i]], mode), sort_key(stats[s[j]], mode))

\* sort_values(by=key, ascending=False): s is sorted, largest key first.
descending(stats, s, mode) ==
    \A i, j \in 1..Len(s) :
        i < j => Leq(sort_key(stats[s[j]], mode), sort_key(stats[s[i]], mode))

\* Lines 110-115: the lists sort_values may give (ties in any order).
sorted_lists(stats, S, mode) == {s \in Orderings(S) : descending(stats, s, mode)}

(***************************************************************************)
(* Detail, lines 175-208.                                                  *)
(***************************************************************************)
\* Mutant: the stored category is shown without looking it up in the list.
detail_cat_unchecked(stored, valid) ==
    IF stored # None THEN stored
    ELSE IF valid # <<>> THEN valid[1] ELSE None

\* Lines 175-177
detail_cat(stored, valid) ==
    IF stored \in Range(valid) THEN stored
    ELSE IF valid # <<>> THEN valid[1] ELSE None

\* Line 181: the rows listed under the detail header.
subset(df, cat) == group_rows(df, cat)

\* Lines 205-207: the heat ratio n/d of a listed row.
progress_val(row, df) ==
    LET sales_val == IntOf(row["sales"])
        max_val == IntOf(MaxRow(df.rows, "sales")["sales"])
    IN IF max_val > 0
       THEN (IF sales_val >= max_val THEN [n |-> 1, d |-> 1]
             ELSE [n |-> sales_val, d |-> max_val])
       ELSE [n |-> 0, d |-> 1]

(***************************************************************************)
(* One run of the script.                                                  *)
(***************************************************************************)
\* Mutant: the fallback category is written back to the session state.
RenderStoringFallback(dfr, country, mode, minp, mins, stored, picked) ==
    \E stats \in {aggregate(restrict_country(dfr, country))} :
    \E S \in {filtered_cats(stats, minp, mins)} :
    \E s \in sorted_lists(stats, S, mode) :
        /\ pc' = "rendered"
        /\ selected_country' = country
        /\ sort_mode' = mode
        /\ min_products' = minp
        /\ min_sales' = mins
        /\ category_stats' = stats
        /\ valid_categories' = s
        /\ selected_category_state' = detail_cat(stored, s)
        /\ scroll_trigger_id' = (IF picked THEN 1 ELSE scroll_trigger_id)
        /\ current_cat' = detail_cat(stored, s)
        /\ fell_back' = IF picked THEN FALSE
                        ELSE fell_back \/ (stored # None /\ stored \notin S)

\* Lines 63-177 for the given widget values: restrict, aggregate, filter,
\* sort, pick the detail category.  picked says that the run is the one a
\* category button triggered (lines 152-154 have stored the category).
Render(dfr, country, mode, minp, mins, stored, picked) ==
    \E stats \in {aggregate(restrict_country(dfr, country))} :
    \E S \in {filtered_cats(stats, minp, mins)} :
    \E s \in sorted_lists(stats, S, mode) :
        /\ pc' = "rendered"
        /\ selected_country' = country
        /\ sort_mode' = mode
        /\ min_products' = minp
        /\ min_sales' = mins
        /\ category_stats' = stats
        /\ valid_categories' = s
        /\ selected_category_state' = stored
        /\ scroll_trigger_id' = (IF picked THEN 1 ELSE scroll_trigger_id)
        /\ current_cat' = detail_cat(stored, s)
        /\ fell_back' = IF picked THEN FALSE
                        ELSE fell_back \/ (stored # None /\ stored \notin S)

\* The first run: lines 16-19, 45-46, then the page with every widget at
\* its initial value.
Start ==
    /\ pc = "start"
    /\ file' = file
    /\ \E res \in {load_data(file)} :
       IF res.stop \/ IsEmpty(res.df)
       THEN /\ pc' = "stopped"
            /\ df_raw' = res.df
            /\ UNCHANGED << scroll_trigger_id, selected_category_state, selected_country,
                            sort_mode, min_products, min_sales, category_stats,
                            valid_categories, current_cat, fell_back >>
       ELSE /\ df_raw' = res.df
            /\ \E c \in default_countries(res.df) :
                   Render(res.df, c, BY_SALES, MinProductsDefault, MinSalesDefault,
                          None, FALSE)

\* The values a slider of range R holds after a run in which the user did
\* not move it: its value, or its initial value when the range changed.
carried(old, R, initial) == {initial} \cup ({old} \cap R)

MaxThreshold == 2

\* The values the user sets a slider of range R to.
settable(R, initial) == {v \in R : v <= MaxThreshold /\ v >= -MaxThreshold} \cup {initial}

\* The user picks another country in the radio of lines 56-61.
SwitchCountry(c) ==
    /\ pc = "rendered"
    /\ c \in available_countries(df_raw)
    /\ c # selected_country
    /\ LET stats == aggregate(restrict_country(df_raw, c)) IN
       \E minp \in carried(min_products, min_products_range(stats), MinProductsDefault) :
       \E mins \in carried(min_sales, min_sales_range(stats), MinSalesDefault) :
           Render(df_raw, c, sort_mode, minp, mins, selected_category_state, FALSE)
    /\ UNCHANGED << file, df_raw >>

\* The user picks the other sort mode in the radio of lines 92-96.
SetSortMode(m) ==
    /\ pc = "rendered"
    /\ m \in SortModes
    /\ m # sort_mode
    /\ Render(df_raw, selected_country, m, min_products, min_sales,
              selected_category_state, FALSE)
    /\ UNCHANGED << file, df_raw >>

\* The user moves the slider of line 100.
SetMinProducts(v) ==
    /\ pc = "rendered"
    /\ v \in settable(min_products_range(category_stats), MinProductsDefault)
    /\ v # min_products
    /\ Render(df_raw, selected_country, sort_mode, v, min_sales,
              selected_category_state, FALSE)
    /\ UNCHANGED << file, df_raw >>

\* The user moves the slider of line 101.
SetMinSales(v) ==
    /\ pc = "rendered"
    /\ v \in settable(min_sales_range(category_stats), MinSalesDefault)
    /\ v # min_sales
    /\ Render(df_raw, selected_country, sort_mode, min_products, v,
              selected_category_state, FALSE)
    /\ UNCHANGED << file, df_raw >>

\* The user clicks the button of category cat (lines 139-154): the run it
\* triggers stores cat when it reaches the button.
PickCategory(cat) ==
    /\ pc = "rendered"
    /\ cat \in Range(valid_categories)
    /\ Render(df_raw, selected_country, sort_mode, min_products, min_sales, cat, TRUE)
    /\ UNCHANGED << file, df_raw >>

\* The user clicks the back-to-top button (lines 233-243): a run that
\* changes no widget.
BackToTop ==
    /\ pc = "rendered"
    /\ Render(df_raw, selected_country, sort_mode, min_products, min_sales,
              selected_category_state, FALSE)
    /\ UNCHANGED << file, df_raw >>

(***************************************************************************)
(* Datasets.                                                               *)
(***************************************************************************)
Categories == {"A", "B"}
Countries == {"UAE", "KSA"}

Txt1 == TextCell(<<"1">>)
Txt2 == TextCell(<<"2">>)
TxtMinus1 == TextCell(<<"-", "1">>)
TxtGarbage == TextCell(<<"x">>)
TxtEmpty == TextCell(<<>>)

\* The bag of the elements of sequence s.
RECURSIVE BagOfSeq(_)
BagOfSeq(s) == IF s = <<>> THEN EmptyBag ELSE SetToBag({Head(s)}) (+) BagOfSeq(Tail(s))

\* The bags of at most n rows drawn from Kinds.
BagsUpTo(n, Kinds) == UNION {{BagOfSeq(s) : s \in [1..k -> Kinds]} : k \in 0..n}

File(readable, columns, rows) == [readable |-> readable, columns |-> columns, rows |-> rows]

InitWith(f) ==
    /\ file = f
    /\ pc = "start"
    /\ scroll_trigger_id = 0
    /\ df_raw = EmptyFrame
    /\ selected_category_state = None
    /\ selected_country = None
    /\ sort_mode = BY_SALES
    /\ min_products = MinProductsDefault
    /\ min_sales = MinSalesDefault
    /\ category_stats = <<>>
    /\ valid_categories = <<>>
    /\ current_cat = None
    /\ fell_back = FALSE

(***************************************************************************)
(* Spec: the dashboard over datasets with the usual columns, under every   *)
(* interaction.                                                            *)
(***************************************************************************)
MaxRows == 2

UIColumns == {"cat", "country", "name", "sales", "reviews"}

\* The sales and reviews cells of the products on offer: a recent best
\* seller, an established product, a product with returns.
Products == {<<Txt2, TxtEmpty>>, <<Txt1, Txt1>>, <<TxtMinus1, Txt1>>}

UIRows ==
    {[cat |-> c, country |-> k, name |-> "p", sales |-> p[1], reviews |-> p[2]] :
        c \in Categories, k \in Countries, p \in Products}

Init == \E rows \in BagsUpTo(MaxRows, UIRows) : InitWith(File(TRUE, UIColumns, rows))

Next ==
    \/ Start
    \/ \E c \in Countries : SwitchCountry(c)
    \/ \E m \in SortModes : SetSortMode(m)
    \/ \E v \in -MaxThreshold..MinProductsDefault : SetMinProducts(v)
    \/ \E v \in -MaxThreshold..MaxThreshold : SetMinSales(v)
    \/ \E cat \in Categories : PickCategory(cat)
    \/ BackToTop

Spec == Init /\ [][Next]_vars

(***************************************************************************)
(* SpecLoad: every schema load_data distinguishes (either category alias,  *)
(* with or without a country column, an unreadable file, an empty one),    *)
(* null product names and unparseable sales.                               *)
(***************************************************************************)
Project(r, columns) == [c \in columns |-> r[c]]

\* Rows with every column; the two category columns disagree on each row,
\* so that the column load_data reads shows in the result.
OtherCategory(c) == IF c = "A" THEN "B" ELSE "A"

FullRows ==
    {[cat |-> c, cat_alt |-> OtherCategory(c), country |-> k, name |-> n,
      sales |-> s, reviews |-> Txt1] :
        c \in Categories, k \in Countries, n \in {"p", None}, s \in {Txt1, TxtGarbage}}

LoadColumns(opt) == opt \cup {"name", "sales", "reviews"}

LoadRows(opt) == {Project(r, LoadColumns(opt)) : r \in FullRows}

InitLoad ==
    \/ InitWith(File(FALSE, {}, EmptyBag))
    \/ \E opt \in SUBSET {"cat", "cat_alt", "country"} :
       \E rows \in BagsUpTo(MaxRows, LoadRows(opt)) :
           InitWith(File(TRUE, LoadColumns(opt), rows))

NextLoad ==
    \/ Start
    \/ \E c \in Countries : SwitchCountry(c)
    \/ \E v \in -MaxThreshold..MinProductsDefault : SetMinProducts(v)

SpecLoad == InitLoad /\ [][NextLoad]_vars

(***************************************************************************)
(* SpecTop10: one category of one country with up to MaxGroup products.    *)
(***************************************************************************)
MaxGroup == 11

GroupCells == {TxtGarbage, Txt1, Txt2, TxtMinus1}
GroupRow(s) == [cat |-> "A", country |-> "UAE", name |-> "p", sales |-> s, reviews |-> Txt1]

\* The bag with counts[s] rows of sales cell s.
GroupBag(counts) ==
    [r \in {GroupRow(s) : s \in {t \in GroupCells : counts[t] > 0}} |-> counts[r["sales"]]]

InitTop10 ==
    \E minus \in 0..MaxGroup :
    \E counts \in [GroupCells \ {TxtMinus1} -> 0..(MaxGroup - minus)] :
        /\ counts[TxtGarbage] + counts[Txt1] + counts[Txt2] + minus <= MaxGroup
        /\ InitWith(File(TRUE, UIColumns, GroupBag(counts @@ (TxtMinus1 :> minus))))

NextTop10 == Start

SpecTop10 == InitTop10 /\ [][NextTop10]_vars

(***************************************************************************)
(* SpecNorm: one row whose cell in one numeric column is any short text,   *)
(* a null or an integer.                                                   *)
(***************************************************************************)
MaxLen == 3

Alphabet == {"1", "5", ",", " ", "-", ".", "x"}
Texts(n) == UNION {[1..k -> Alphabet] : k \in 0..n}
NormCells(n) == {TextCell(s) : s \in Texts(n)} \cup {NullCell}
                    \cup {IntCell(i) : i \in {-12, 0, 7, 1680}}

NormRow(col, cell) ==
    (col :> cell) @@
    [cat |-> "A", country |-> "UAE", name |-> "p", sales |-> Txt1, reviews |-> Txt1]

InitNorm ==
    \E col \in cols_to_fix : \E cell \in NormCells(MaxLen) :
        InitWith(File(TRUE, UIColumns \cup {col}, SetToBag({NormRow(col, cell)})))

NextNorm == Start

SpecNorm == InitNorm /\ [][NextNorm]_vars

(***************************************************************************)
(* Claims.                                                                 *)
(***************************************************************************)
Rendered == pc = "rendered"

\* The frame of the active country, as line 63 builds it.
ActiveFrame == restrict_country(df_raw, selected_country)

\* The numeric columns the loaded frame has.
FixedColumns == cols_to_fix \cap df_raw.columns

(* ---- C2 ---------------------------------------------------------------- *)
\* The text a raw cell shows, commas dropped.
Shown(cell) == SelectSeq(AsTypeStr(cell), LAMBDA c : c # ",")

\* A cell that is no number: a null, or text that, commas dropped, has no
\* digit, has a character that belongs to no number, has a blank between
\* two other characters, a sign after its first character, or two points.
Garbled(cell) ==
    LET s == Shown(cell)
        inked == {i \in 1..Len(s) : s[i] # " "}
    IN \/ cell.t = "null"
       \/ \A i \in 1..Len(s) : s[i] \notin {"0", "1", "2", "3", "4", "5", "6", "7", "8", "9"}
       \/ \E i \in 1..Len(s) :
            s[i] \notin {"0", "1", "2", "3", "4", "5", "6", "7", "8", "9", "-", "+", ".", " "}
       \/ \E i \in 1..Len(s) : s[i] = " " /\ (\E j \in inked : j < i) /\ (\E j \in inked : j > i)
       \/ \E i \in inked : s[i] \in {"-", "+"} /\ (\E j \in inked : j < i)
       \/ Cardinality({i \in 1..Len(s) : s[i] = "."}) > 1

ShowsMinus(cell) == \E i \in 1..Len(Shown(cell)) : Shown(cell)[i] = "-"

\* The raw row a loaded row comes from (SpecNorm's datasets have one row).
RawRow == CHOOSE r \in DOMAIN file.rows : TRUE

\* C2 as stated: after load_data every numeric field is a number >= 0,
\* never null, and a value that fails to parse is exactly 0.
CE_C2_NumericNonNegative ==
    Rendered =>
        \A r \in DOMAIN df_raw.rows : \A col \in FixedColumns :
            /\ ~r[col].nan
            /\ r[col].m >= 0
            /\ Garbled(RawRow[col]) => r[col] = Zero

\* C2 amended: after load_data every numeric field is a number, never
\* null; a value that fails to parse is exactly 0; a value that parses keeps
\* its sign, so a field is negative only if its raw text shows a minus sign.
Thm_C2_NumericNeverNull ==
    Rendered =>
        \A r \in DOMAIN df_raw.rows : \A col \in FixedColumns :
            /\ ~r[col].nan
            /\ Garbled(RawRow[col]) => r[col] = Zero
            /\ r[col].m < 0 => ShowsMinus(RawRow[col])

\* A garbled three-character price was loaded as exactly 0.
Wit_C2_GarbledIsZero ==
    /\ Rendered
    /\ "price" \in FixedColumns
    /\ Garbled(RawRow["price"])
    /\ RawRow["price"].t = "str" /\ Len(RawRow["price"].s) = 3
    /\ \A r \in DOMAIN df_raw.rows : r["price"] = Zero

(* ---- C1 ---------------------------------------------------------------- *)
\* The rows of category cat in the active country, and how many they are.
Members(cat) == group_rows(ActiveFrame, cat)
MemberCount(cat) == RowCount(Members(cat))

\* C1 as stated: top10SalesSum <= totalSales for every category of the
\* active country, with equality if and only if it has at most 10 members.
CE_C1_Top10EqualIffAtMostTen ==
    Rendered =>
        \A cat \in DOMAIN category_stats :
            /\ Leq(category_stats[cat].top10, category_stats[cat].total_sales)
            /\ Eq(category_stats[cat].top10, category_stats[cat].total_sales)
                   <=> MemberCount(cat) <= TopN

\* C1 amended: a category with at most 10 members has top10SalesSum =
\* totalSales; when no member has a negative sales count, top10SalesSum <=
\* totalSales; and when every member has a positive sales count the two are
\* equal if and only if the category has at most 10 members.
Thm_C1_Top10AgainstTotal ==
    Rendered =>
        \A cat \in DOMAIN category_stats :
            LET top == category_stats[cat].top10
                total == category_stats[cat].total_sales
                rows == DOMAIN Members(cat)
            IN /\ MemberCount(cat) <= TopN => Eq(top, total)
               /\ (\A r \in rows : r["sales"].m >= 0) => Leq(top, total)
               /\ (\A r \in rows : r["sales"].m > 0) =>
                      (Eq(top, total) <=> MemberCount(cat) <= TopN)

\* A category of more than 10 members, all selling, whose top-10 sum is
\* below its total.
Wit_C1_EleventhMemberCounts ==
    /\ Rendered
    /\ \E cat \in DOMAIN category_stats :
        /\ MemberCount(cat) > TopN
        /\ \A r \in DOMAIN Members(cat) : r["sales"].m > 0
        /\ Lt(category_stats[cat].top10, category_stats[cat].total_sales)

(* ---- C3 ---------------------------------------------------------------- *)
\* C3: the summaries are those of the categories with a record in the
\* active country, each with count = number of its records, totalSales =
\* sum of their sales counts and totalComments = sum of their review counts.
CE_C3_CountIsNumberOfRecords ==
    Rendered =>
        /\ DOMAIN category_stats = {r["Target_Category"] : r \in DOMAIN ActiveFrame.rows}
        /\ \A cat \in DOMAIN category_stats :
            /\ category_stats[cat].count = MemberCount(cat)
            /\ Eq(category_stats[cat].total_sales, ColSum(Members(cat), "sales"))
            /\ Eq(category_stats[cat].total_comments, ColSum(Members(cat), "reviews"))

(* ---- C6 ---------------------------------------------------------------- *)
NoCategoryColumn == "cat" \notin file.columns /\ "cat_alt" \notin file.columns

\* After a pass that did not stop, unparseable sales count as zero and an
\* empty selection is shown as no category.
Degraded ==
    /\ \A cat \in DOMAIN category_stats : ~category_stats[cat].total_sales.nan
    /\ (\A r \in DOMAIN file.rows : Garbled(r["sales"]))
           => \A cat \in DOMAIN category_stats : Eq(category_stats[cat].total_sales, Zero)
    /\ (\A cat \in DOMAIN category_stats :
            ~(category_stats[cat].count >= min_products
              /\ Leq(Num(min_sales, 0), category_stats[cat].total_sales)))
           => valid_categories = <<>> /\ current_cat = None

\* C6 as stated: the run stops only when the dataset was read and has
\* neither category column; in every other case it completes.
CE_C6_OnlyMissingCategoryHalts ==
    pc # "start" =>
        /\ pc = "stopped" <=> (file.readable /\ NoCategoryColumn)
        /\ Rendered => Degraded

\* C6 amended: the run stops (st.stop) when the dataset has neither category
\* column, when it cannot be read and when it has no rows; in every other
\* case, whatever the numeric text and the thresholds, the pass completes,
\* unparseable values counting as zero and an empty selection being shown
\* as no category.
Thm_C6_HaltsOnSchemaUnreadableOrEmpty ==
    pc # "start" =>
        /\ pc = "stopped" <=>
               (~file.readable \/ NoCategoryColumn \/ file.rows = EmptyBag)
        /\ Rendered => Degraded

\* A readable dataset with a category column and no rows stopped the run.
Wit_C6_EmptyDatasetHalts ==
    /\ pc = "stopped"
    /\ file.readable
    /\ ~NoCategoryColumn
    /\ file.rows = EmptyBag

(* ---- C7 ---------------------------------------------------------------- *)
\* Sum of totalSales over the categories S of the summaries stats.
RECURSIVE TotalSalesOver(_, _)
TotalSalesOver(stats, S) ==
    IF S = {} THEN Zero
    ELSE LET c == CHOOSE c \in S : TRUE
         IN Add(stats[c].total_sales, TotalSalesOver(stats, S \ {c}))
TotalSales(stats) == TotalSalesOver(stats, DOMAIN stats)

\* Sum over the countries K of the totalSales of each country's aggregation.
RECURSIVE PartitionTotal(_)
PartitionTotal(K) ==
    IF K = {} THEN Zero
    ELSE LET k == CHOOSE k \in K : TRUE
         IN Add(TotalSales(aggregate(restrict_country(df_raw, k))),
                PartitionTotal(K \ {k}))

MeetsThresholds(cat) ==
    /\ category_stats[cat].count >= min_products
    /\ Leq(Num(min_sales, 0), category_stats[cat].total_sales)

\* C4: a category is in the valid-category list if and only if its summary
\* has count >= minProducts and totalSales >= minSales.
Thm_C4_ValidIffBothThresholds ==
    Rendered =>
        /\ Range(valid_categories) \subseteq DOMAIN category_stats
        /\ \A cat \in DOMAIN category_stats :
               cat \in Range(valid_categories) <=> MeetsThresholds(cat)

\* One category sits exactly on both thresholds and is listed, another is
\* left out.
Wit_C4_OnTheThresholds ==
    /\ Rendered
    /\ min_products > 0
    /\ min_sales > 0
    /\ \E cat \in Range(valid_categories) :
        /\ category_stats[cat].count = min_products
        /\ Eq(category_stats[cat].total_sales, Num(min_sales, 0))
    /\ \E cat \in DOMAIN category_stats : cat \notin Range(valid_categories)

(* ---- C9 ---------------------------------------------------------------- *)
\* C9: the list is in non-increasing order of totalSales (by total sales) or
\* of totalComments (by total comments), and holds the filtered categories,
\* each once.
Thm_C9_SortedDescending ==
    Rendered =>
        /\ \A i \in 1..(Len(valid_categories) - 1) :
               LET a == category_stats[valid_categories[i]]
                   b == category_stats[valid_categories[i + 1]]
               IN IF sort_mode = BY_SALES
                  THEN Leq(b.total_sales, a.total_sales)
                  ELSE Leq(b.total_comments, a.total_comments)
        /\ Range(valid_categories) = {cat \in DOMAIN category_stats : MeetsThresholds(cat)}
        /\ Cardinality(Range(valid_categories)) = Len(valid_categories)

\* Two categories listed by comments in the order opposite to their sales.
Wit_C9_CommentsOrderDiffers ==
    /\ Rendered
    /\ sort_mode = BY_COMMENTS
    /\ Len(valid_categories) = 2
    /\ Lt(category_stats[valid_categories[2]].total_comments,
          category_stats[valid_categories[1]].total_comments)
    /\ Lt(category_stats[valid_categories[1]].total_sales,
          category_stats[valid_categories[2]].total_sales)

Thm_C10_StoredChangesOnlyByPick ==
    [][ /\ selected_category_state' # selected_category_state
            => /\ \E cat \in Categories : PickCategory(cat)
               /\ selected_category_state' \in Range(valid_categories')
        /\ selected_category_state' \in Range(valid_categories')
            => current_cat' = selected_category_state' ]_vars

\* A picked category that a later pass had replaced by the fallback is
\* shown again, with no pick in between.
Wit_C10_ShownAgainWithoutPick ==
    /\ Rendered
    /\ fell_back
    /\ selected_category_state # None
    /\ current_cat = selected_category_state

(* ---- C8 ---------------------------------------------------------------- *)
\* The largest sales count of the active country.
MaxSales == MaxRow(ActiveFrame.rows, "sales")["sales"]

\* n/d = a/b for numbers a and b, b not 0.
RatioIs(p, a, b) ==
    LET e == Max2(a.e, b.e) IN p.n * Scaled(b, e) = Scaled(a, e) * p.d

\* C8: the heat ratio of every listed record is its sales count divided by
\* the largest sales count of the active country, lies in [0, 1], and is 0
\* when that largest count is 0.
CE_C8_HeatRatio ==
    (Rendered /\ current_cat # None) =>
        \A row \in DOMAIN subset(ActiveFrame, current_cat) :
            LET p == progress_val(row, ActiveFrame) IN
            /\ 0 <= p.n /\ p.n <= p.d
            /\ MaxSales.m = 0 => p.n = 0
            /\ MaxSales.m # 0 => RatioIs(p, row["sales"], MaxSales)
====
